---- MODULE Spec2Model ----
(***************************************************************************)
(* The AppNotificationBuilder Button of                                    *)
(* dev/AppNotifications/AppNotificationBuilder/Button.cpp as a state       *)
(* machine: one Button object, its setters and GetXml.  An hstring is a    *)
(* TLA+ string (a sequence of characters: \o, Len and SubSeq apply), so    *)
(* the serialization is computed character for character.                  *)
(***************************************************************************)
EXTENDS Integers, Sequences, FiniteSets, TLC

(***************************************************************************)
(* The values the caller passes.  Strings are opaque to the Button and are *)
(* emitted verbatim, so the sets hold ordinary values, the empty string    *)
(* and strings that themselves spell out attribute text.                   *)
(***************************************************************************)
PlacementText == " placement=\"contextMenu\""

CriticalText == " hint-buttonStyle=\"critical\""

ToolTipText == " hint-toolTip="

Contents == {"Accept", PlacementText \o CriticalText \o ToolTipText \o "x"}

Keys == {"action", "id"}

Values == {"accept", "7"}

ToolTips == {"", "Help"}

InputIds == {"", "reply"}

ButtonStyles == {"Default", "Success", "Critical"}

\* A Uri parameter is a reference: null (the empty tuple) or one Uri object,
\* identified by the string it was created from.
NullUri == <<>>

IconUris == {NullUri, <<"HTTP://Contoso.com/icon.png">>}

ProtocolUris == {NullUri, <<"ms-app:reply">>}

\* Uri.ToString(): the canonical form of the Uri, which need not be the string
\* the Uri was created from (scheme and host in lower case).
UriToString(uri) ==
    CASE uri[1] = "HTTP://Contoso.com/icon.png" -> "http://contoso.com/icon.png"
      [] OTHER -> uri[1]

(***************************************************************************)
(* m_arguments: an ordered string-to-string mapping, a sequence of         *)
(* key/value pairs with unique keys, in the order of first insertion.      *)
(***************************************************************************)
EmptyMap == <<>>

HasKey(map, key) == \E i \in 1..Len(map) : map[i].key = key

Insert(map, key, value) ==
    IF HasKey(map, key)
    THEN [i \in 1..Len(map) |->
            IF map[i].key = key THEN [key |-> key, value |-> value] ELSE map[i]]
    ELSE Append(map, [key |-> key, value |-> value])

\* The fields of a Button other than m_content, as their declarations
\* initialize them.
FieldDefaults ==
    [m_arguments |-> EmptyMap,
     m_iconUri |-> NullUri,
     m_protocolUri |-> NullUri,
     m_toolTip |-> "",
     m_inputId |-> "",
     m_useContextMenuPlacement |-> FALSE,
     m_buttonStyle |-> "Default"]

\* Button::Button(content)
Button(content) == [m_content |-> content] @@ FieldDefaults

(***************************************************************************)
(* The setters, each a function from the Button and its arguments to the   *)
(* Button after the call.                                                  *)
(***************************************************************************)
AddArgument(b, key, value) ==
    [b EXCEPT !.m_arguments = Insert(b.m_arguments, key, value)]

SetIconUriAlsoProtocol(b, iconUri) ==
    [b EXCEPT !.m_iconUri = iconUri, !.m_protocolUri = iconUri]

SetIconUri(b, iconUri) == [b EXCEPT !.m_iconUri = iconUri]

UseProtocolActivation(b, protocolUri) == [b EXCEPT !.m_protocolUri = protocolUri]

SetToolTip(b, toolTip) == [b EXCEPT !.m_toolTip = toolTip]

SetInputIdIntoContent(b, inputId) == [b EXCEPT !.m_content = inputId]

SetInputId(b, inputId) == [b EXCEPT !.m_inputId = inputId]

UseContextMenuPlacement(b) == [b EXCEPT !.m_useContextMenuPlacement = TRUE]

SetButtonStyle(b, buttonStyle) == [b EXCEPT !.m_buttonStyle = buttonStyle]

(***************************************************************************)
(* GetXml, block by block.                                                 *)
(***************************************************************************)
RECURSIVE AppendArgumentsNoSemicolon(_, _)
AppendArgumentsNoSemicolon(xml, map) ==
    IF map = <<>> THEN xml
    ELSE AppendArgumentsNoSemicolon(
             xml \o map[1].key \o "&" \o map[1].value, Tail(map))

\* for (auto pair : m_arguments) xml = xml + Key + L"&" + Value + L";"
RECURSIVE AppendArguments(_, _)
AppendArguments(xml, map) ==
    IF map = <<>> THEN xml
    ELSE AppendArguments(
             xml \o map[1].key \o "&" \o map[1].value \o ";", Tail(map))

AppendPlacementAlways(xml, b) == xml \o " placement=\"contextMenu\""

AppendPlacement(xml, b) ==
    IF b.m_useContextMenuPlacement
    THEN xml \o " placement=\"contextMenu\""
    ELSE xml

AppendIconUri(xml, b) ==
    IF b.m_iconUri # NullUri
    THEN xml \o " imageUri=" \o UriToString(b.m_iconUri)
    ELSE xml

AppendProtocolUri(xml, b) ==
    IF b.m_protocolUri # NullUri
    THEN xml \o " activationType=\"protocol\" protocolActivationTargetApplicationPfn="
             \o UriToString(b.m_protocolUri)
    ELSE xml

AppendInputIdQuoted(xml, b) ==
    IF b.m_inputId # ""
    THEN xml \o " hint-inputId=\"" \o b.m_inputId \o "\""
    ELSE xml

AppendInputId(xml, b) ==
    IF b.m_inputId # ""
    THEN xml \o " hint-inputId=" \o b.m_inputId
    ELSE xml

AppendButtonStyleCritical(xml, b) ==
    IF b.m_buttonStyle = "Success"
    THEN xml \o " hint-buttonStyle=\"success\""
    ELSE IF b.m_buttonStyle = "Critical"
         THEN xml \o " hint-buttonStyle=\"critical\""
         ELSE xml

\* Both branches test ButtonStyle::Success, as the source does.
AppendButtonStyle(xml, b) ==
    IF b.m_buttonStyle = "Success"
    THEN xml \o " hint-buttonStyle=\"success\""
    ELSE IF b.m_buttonStyle = "Success"
         THEN xml \o " hint-buttonStyle=\"critical\""
         ELSE xml

AppendToolTipAlways(xml, b) == xml \o " hint-toolTip=" \o b.m_toolTip

AppendToolTip(xml, b) ==
    IF b.m_toolTip # ""
    THEN xml \o " hint-toolTip=" \o b.m_toolTip
    ELSE xml

GetXmlToolTipFirst(b) ==
    LET xml0 == "<action content=" \o b.m_content \o " arguments="
        xml1 == AppendArguments(xml0, b.m_arguments)
        xml2 == AppendPlacement(xml1, b)
        xml3 == AppendIconUri(xml2, b)
        xml4 == AppendProtocolUri(xml3, b)
        xml5 == AppendToolTip(xml4, b)
        xml6 == AppendInputId(xml5, b)
        xml7 == AppendButtonStyle(xml6, b)
    IN  xml7 \o " />"

GetXml(b) ==
    LET xml0 == "<action content=" \o b.m_content \o " arguments="
        xml1 == AppendArguments(xml0, b.m_arguments)
        xml2 == AppendPlacement(xml1, b)
        xml3 == AppendIconUri(xml2, b)
        xml4 == AppendProtocolUri(xml3, b)
        xml5 == AppendInputId(xml4, b)
        xml6 == AppendButtonStyle(xml5, b)
        xml7 == AppendToolTip(xml6, b)
    IN  xml7 \o " />"

(***************************************************************************)
(* The state.  this: the Button object.  returned: what the most recent    *)
(* call returned, <<>> for the Button itself (the constructor, a setter's  *)
(* return *this) and <<s>> for the string s of GetXml.  The other          *)
(* variables record the calls made and take no part in the Button's        *)
(* behaviour: ctorContent is the constructor's argument; firstKeys and     *)
(* lastCalls are the AddArgument calls in call order, firstKeys the key of *)
(* every call that passed a key for the first time, lastCalls the          *)
(* <<key, value>> of every call whose key no later call passed again;      *)
(* lastArgs, for every other setter, is <<>> while it has not been called  *)
(* and then <<arguments of its most recent call>>; phase tells where the   *)
(* calls stand with respect to GetXml; plain is a second Button that is    *)
(* given the same constructor and setter calls and never a GetXml call.    *)
(***************************************************************************)
VARIABLES this, returned, ctorContent, firstKeys, lastCalls, lastArgs, phase, plain

vars == <<this, returned, ctorContent, firstKeys, lastCalls, lastArgs, phase, plain>>

Range(seq) == {seq[i] : i \in 1..Len(seq)}

OtherKey(call, key) == call[1] # key

Setters ==
    {"SetIconUri", "UseProtocolActivation", "SetToolTip", "SetInputId",
     "UseContextMenuPlacement", "SetButtonStyle"}

Init ==
    \E content \in Contents :
        /\ this = Button(content)
        /\ returned = <<>>
        /\ ctorContent = content
        /\ firstKeys = <<>>
        /\ lastCalls = <<>>
        /\ lastArgs = [op \in Setters |-> <<>>]
        /\ phase = "Configuring"
        /\ plain = Button(content)

\* What a setter call leaves behind besides the Button's new state: it
\* returns *this, and the call is recorded.
SetterReturns ==
    /\ returned' = <<>>
    /\ phase' = IF phase = "Configuring" THEN "Configuring" ELSE "Reconfiguring"
    /\ UNCHANGED ctorContent

Recorded(op, args) ==
    /\ lastArgs' = [lastArgs EXCEPT ![op] = <<args>>]
    /\ UNCHANGED <<firstKeys, lastCalls>>

DoAddArgument(key, value) ==
    /\ this' = AddArgument(this, key, value)
    /\ plain' = AddArgument(plain, key, value)
    /\ firstKeys' = IF key \in Range(firstKeys) THEN firstKeys
                    ELSE Append(firstKeys, key)
    /\ lastCalls' = Append(SelectSeq(lastCalls, LAMBDA call : OtherKey(call, key)),
                           <<key, value>>)
    /\ UNCHANGED lastArgs
    /\ SetterReturns

DoSetIconUri(iconUri) ==
    /\ this' = SetIconUri(this, iconUri)
    /\ plain' = SetIconUri(plain, iconUri)
    /\ Recorded("SetIconUri", <<iconUri>>)
    /\ SetterReturns

DoUseProtocolActivation(protocolUri) ==
    /\ this' = UseProtocolActivation(this, protocolUri)
    /\ plain' = UseProtocolActivation(plain, protocolUri)
    /\ Recorded("UseProtocolActivation", <<protocolUri>>)
    /\ SetterReturns

DoSetToolTip(toolTip) ==
    /\ this' = SetToolTip(this, toolTip)
    /\ plain' = SetToolTip(plain, toolTip)
    /\ Recorded("SetToolTip", <<toolTip>>)
    /\ SetterReturns

DoSetInputId(inputId) ==
    /\ this' = SetInputId(this, inputId)
    /\ plain' = SetInputId(plain, inputId)
    /\ Recorded("SetInputId", <<inputId>>)
    /\ SetterReturns

DoSetButtonStyle(buttonStyle) ==
    /\ this' = SetButtonStyle(this, buttonStyle)
    /\ plain' = SetButtonStyle(plain, buttonStyle)
    /\ Recorded("SetButtonStyle", <<buttonStyle>>)
    /\ SetterReturns

CallAddArgument == \E key \in Keys, value \in Values : DoAddArgument(key, value)

CallSetIconUri == \E iconUri \in IconUris : DoSetIconUri(iconUri)

CallUseProtocolActivation ==
    \E protocolUri \in ProtocolUris : DoUseProtocolActivation(protocolUri)

CallSetToolTip == \E toolTip \in ToolTips : DoSetToolTip(toolTip)

CallSetInputId == \E inputId \in InputIds : DoSetInputId(inputId)

CallUseContextMenuPlacement ==
    /\ this' = UseContextMenuPlacement(this)
    /\ plain' = UseContextMenuPlacement(plain)
    /\ Recorded("UseContextMenuPlacement", <<>>)
    /\ SetterReturns

CallSetButtonStyle ==
    \E buttonStyle \in ButtonStyles : DoSetButtonStyle(buttonStyle)

\* What a GetXml call leaves behind besides the Button's state: the string
\* it returns.
GetXmlReturns ==
    /\ returned' = <<GetXml(this)>>
    /\ phase' = IF phase \in {"Configuring", "Serialized"}
                THEN "Serialized" ELSE "Reserialized"
    /\ UNCHANGED <<ctorContent, firstKeys, lastCalls, lastArgs, plain>>

CallGetXmlClearsToolTip ==
    /\ this' = [this EXCEPT !.m_toolTip = ""]
    /\ GetXmlReturns

CallGetXmlClearsArguments ==
    /\ this' = [this EXCEPT !.m_arguments = EmptyMap]
    /\ GetXmlReturns

\* GetXml assigns to no field.
CallGetXml ==
    /\ UNCHANGED this
    /\ GetXmlReturns

Next ==
    \/ CallAddArgument
    \/ CallSetIconUri
    \/ CallUseProtocolActivation
    \/ CallSetToolTip
    \/ CallSetInputId
    \/ CallUseContextMenuPlacement
    \/ CallSetButtonStyle
    \/ CallGetXml

Spec == Init /\ [][Next]_vars

(***************************************************************************)
(* Reading strings and the record of the calls.                            *)
(***************************************************************************)
Contains(s, text) ==
    \E i \in 0..(Len(s) - Len(text)) : SubSeq(s, i + 1, i + Len(text)) = text

StartsWith(s, text) == Len(text) <= Len(s) /\ SubSeq(s, 1, Len(text)) = text

\* GetXml was the most recent call, and Xml is the string it returned.
Serialized == returned # <<>>

Xml == returned[1]

WasCalled(op) == lastArgs[op] # <<>>

\* The first argument of the most recent call of op, or default when op was
\* never called.
LastPassed(op, default) ==
    IF WasCalled(op) THEN lastArgs[op][1][1] ELSE default

OnlyCalled(ops) == \A op \in Setters \ ops : ~WasCalled(op)

Opt(present, text) == IF present THEN text ELSE ""

RECURSIVE Pairs(_)
Pairs(map) ==
    IF map = <<>> THEN ""
    ELSE map[1].key \o "&" \o map[1].value \o ";" \o Pairs(Tail(map))

\* The value of the most recent AddArgument call that passed key.
LastValue(key) ==
    lastCalls[CHOOSE i \in 1..Len(lastCalls) : lastCalls[i][1] = key][2]

\* The pairs of the keys passed, in the order of their first calls, each with
\* the value of its most recent call.
RECURSIVE PairsFrom(_)
PairsFrom(keys) ==
    IF keys = <<>> THEN ""
    ELSE keys[1] \o "&" \o LastValue(keys[1]) \o ";" \o PairsFrom(Tail(keys))

\* The strings the Button holds, all emitted verbatim by GetXml.
HeldStrings ==
    {this.m_content, this.m_toolTip, this.m_inputId}
      \cup {this.m_arguments[i].key : i \in 1..Len(this.m_arguments)}
      \cup {this.m_arguments[i].value : i \in 1..Len(this.m_arguments)}
      \cup {UriToString(u) : u \in {this.m_iconUri, this.m_protocolUri} \ {NullUri}}

NoneHolds(text) == \A s \in HeldStrings : ~Contains(s, text)

Fields == DOMAIN Button("")

OnlyChanges(field) == \A f \in Fields \ {field} : this'[f] = this[f]

(***************************************************************************)
(* C1: whatever setters were called, in whatever order, the string GetXml  *)
(* returns is "<action content=" + content + " arguments=" + the argument  *)
(* pairs, then the optional attributes in the order placement, imageUri,   *)
(* activationType/protocolActivationTargetApplicationPfn, hint-inputId,    *)
(* hint-buttonStyle, hint-toolTip, then " />".  Each attribute is read off *)
(* the record of the calls, not off the Button.                            *)
(***************************************************************************)
C1_AttributeOrder ==
    Serialized =>
        Xml = "<action content=" \o ctorContent
                \o " arguments=" \o Pairs(this.m_arguments)
                \o Opt(WasCalled("UseContextMenuPlacement"), " placement=\"contextMenu\"")
                \o Opt(LastPassed("SetIconUri", NullUri) # NullUri,
                       " imageUri=" \o UriToString(LastPassed("SetIconUri", NullUri)))
                \o Opt(LastPassed("UseProtocolActivation", NullUri) # NullUri,
                       " activationType=\"protocol\" protocolActivationTargetApplicationPfn="
                         \o UriToString(LastPassed("UseProtocolActivation", NullUri)))
                \o Opt(LastPassed("SetInputId", "") # "",
                       " hint-inputId=" \o LastPassed("SetInputId", ""))
                \o Opt(LastPassed("SetButtonStyle", "Default") = "Success",
                       " hint-buttonStyle=\"success\"")
                \o Opt(LastPassed("SetToolTip", "") # "",
                       " hint-toolTip=" \o LastPassed("SetToolTip", ""))
                \o " />"

\* GetXml has returned a string that holds every optional attribute and two
\* argument pairs.
C1_Witness ==
    /\ Serialized
    /\ Len(this.m_arguments) = 2
    /\ Xml = "<action content=Accept arguments=id&7;action&accept;"
               \o " placement=\"contextMenu\" imageUri=http://contoso.com/icon.png"
               \o " activationType=\"protocol\" protocolActivationTargetApplicationPfn=ms-app:reply"
               \o " hint-inputId=reply hint-buttonStyle=\"success\" hint-toolTip=Help />"

(***************************************************************************)
(* C2: on a Button constructed with content C on which only                *)
(* AddArgument(K, V) and SetInputId(I), I not empty, were called, GetXml   *)
(* returns "<action content=C arguments=K&V; hint-inputId=I />"; and       *)
(* Button("Accept").AddArgument("action","accept").SetInputId("reply")     *)
(* serializes to the string the specification gives.                       *)
(***************************************************************************)
C2_AcceptExample ==
    (/\ Serialized
     /\ OnlyCalled({"SetInputId"})
     /\ WasCalled("SetInputId")
     /\ LastPassed("SetInputId", "") # ""
     /\ Len(lastCalls) = 1)
    => /\ Xml = "<action content=" \o ctorContent
                  \o " arguments=" \o lastCalls[1][1] \o "&" \o lastCalls[1][2]
                  \o "; hint-inputId=" \o LastPassed("SetInputId", "") \o " />"
       /\ (/\ ctorContent = "Accept"
           /\ lastCalls[1] = <<"action", "accept">>
           /\ LastPassed("SetInputId", "") = "reply")
          => Xml = "<action content=Accept arguments=action&accept; hint-inputId=reply />"

C2_Witness ==
    /\ Serialized
    /\ ctorContent = "Accept"
    /\ lastCalls = << <<"action", "accept">> >>
    /\ OnlyCalled({"SetInputId"})
    /\ lastArgs["SetInputId"] = << <<"reply">> >>

(***************************************************************************)
(* C3: GetXml is a pure read.  A GetXml call changes no field of the       *)
(* Button, and when the call before it was a GetXml call too, it returns   *)
(* the same string.                                                        *)
(***************************************************************************)
C3_GetXmlPure ==
    [][CallGetXml => /\ this' = this
                     /\ Serialized => returned' = returned]_vars

\* GetXml has been called on a Button whose fields are set, and the fields
\* are still what the setters made them.
C3_Witness ==
    /\ Serialized
    /\ this.m_toolTip = "Help"
    /\ this.m_inputId = "reply"
    /\ this.m_buttonStyle = "Success"
    /\ this.m_useContextMenuPlacement
    /\ Len(this.m_arguments) = 2
    /\ this.m_iconUri # NullUri

C5_Original ==
    Serialized =>
        /\ LastPassed("SetButtonStyle", "Default") = "Success"
               => Contains(Xml, "hint-buttonStyle=\"success\"")
        /\ LastPassed("SetButtonStyle", "Default") = "Critical"
               => /\ ~Contains(Xml, "hint-buttonStyle=")
                  /\ Xml = GetXml([this EXCEPT !.m_buttonStyle = "Default"])
        /\ ~Contains(Xml, "hint-buttonStyle=\"critical\"")

(***************************************************************************)
(* C5 amended: the two statements of absence hold when no string the       *)
(* Button holds itself contains hint-buttonStyle=; the rest holds always.  *)
(***************************************************************************)
C5_StyleAttribute ==
    Serialized =>
        /\ LastPassed("SetButtonStyle", "Default") = "Success"
               => Contains(Xml, "hint-buttonStyle=\"success\"")
        /\ LastPassed("SetButtonStyle", "Default") = "Critical"
               => /\ NoneHolds("hint-buttonStyle=") => ~Contains(Xml, "hint-buttonStyle=")
                  /\ Xml = GetXml([this EXCEPT !.m_buttonStyle = "Default"])
        /\ NoneHolds("hint-buttonStyle=")
               => ~Contains(Xml, "hint-buttonStyle=\"critical\"")

\* SetButtonStyle(Critical) was the last style call on a Button none of whose
\* strings holds the attribute's text, and GetXml was called.
C5_Witness ==
    /\ Serialized
    /\ lastArgs["SetButtonStyle"] = << <<"Critical">> >>
    /\ this.m_buttonStyle = "Critical"
    /\ NoneHolds("hint-buttonStyle=")
    /\ this.m_toolTip = "Help"

(***************************************************************************)
(* C6 as stated, its first half: GetXml holds  placement="contextMenu"     *)
(* exactly when UseContextMenuPlacement was called before.                 *)
(***************************************************************************)
C6_Original ==
    Serialized =>
        (Contains(Xml, " placement=\"contextMenu\"")
           <=> WasCalled("UseContextMenuPlacement"))

(***************************************************************************)
(* C6 amended: after UseContextMenuPlacement GetXml holds                  *)
(* placement="contextMenu"; without the call it does not, when no string   *)
(* the Button holds itself contains that text; and once the flag is true   *)
(* no call makes it false.                                                 *)
(***************************************************************************)
C6_Placement ==
    /\ [](Serialized =>
            /\ WasCalled("UseContextMenuPlacement")
                   => Contains(Xml, " placement=\"contextMenu\"")
            /\ (~WasCalled("UseContextMenuPlacement")
                  /\ NoneHolds(" placement=\"contextMenu\""))
                   => ~Contains(Xml, " placement=\"contextMenu\""))
    /\ [][this.m_useContextMenuPlacement => this'.m_useContextMenuPlacement]_vars

\* GetXml was called, then setters, then GetXml again, on a Button on which
\* UseContextMenuPlacement had been called.
C6_Witness ==
    /\ phase = "Reserialized"
    /\ WasCalled("UseContextMenuPlacement")
    /\ this.m_useContextMenuPlacement
    /\ NoneHolds(" placement=\"contextMenu\"")

(***************************************************************************)
(* C7 as stated: GetXml holds  hint-toolTip=  followed by t exactly when   *)
(* the most recent SetToolTip call passed a non-empty t; with no call, or  *)
(* the empty string passed last, it holds no hint-toolTip.                 *)
(***************************************************************************)
C7_Original ==
    Serialized =>
        IF LastPassed("SetToolTip", "") # ""
        THEN Contains(Xml, " hint-toolTip=" \o LastPassed("SetToolTip", ""))
        ELSE ~Contains(Xml, " hint-toolTip=")

(***************************************************************************)
(* C7 amended: the absence holds when no string the Button holds itself    *)
(* contains  hint-toolTip=  .                                              *)
(***************************************************************************)
C7_ToolTip ==
    Serialized =>
        IF LastPassed("SetToolTip", "") # ""
        THEN Contains(Xml, " hint-toolTip=" \o LastPassed("SetToolTip", ""))
        ELSE NoneHolds(" hint-toolTip=") => ~Contains(Xml, " hint-toolTip=")

\* SetToolTip("") was the most recent SetToolTip call, and GetXml was called
\* after other setters had left their attributes.
C7_Witness ==
    /\ Serialized
    /\ lastArgs["SetToolTip"] = << <<"">> >>
    /\ NoneHolds(" hint-toolTip=")
    /\ this.m_inputId = "reply"
    /\ this.m_buttonStyle = "Success"

(***************************************************************************)
(* C8: the content is fixed at construction: after any calls it is the     *)
(* constructor's argument c, and every string GetXml returns begins with   *)
(* "<action content=" followed by c.                                       *)
(***************************************************************************)
C8_ContentFixed ==
    /\ this.m_content = ctorContent
    /\ Serialized => StartsWith(Xml, "<action content=" \o ctorContent \o " arguments=")

\* Every setter has been called, GetXml too, and then GetXml again.
C8_Witness ==
    /\ phase = "Reserialized"
    /\ \A op \in Setters : WasCalled(op)
    /\ Len(firstKeys) = 2
    /\ this.m_inputId = "reply"

(***************************************************************************)
(* C9: serialization locks nothing.  After a GetXml call every setter can  *)
(* still be called, and a later GetXml returns what a Button given the     *)
(* same setter calls and no GetXml call in between returns.                *)
(***************************************************************************)
C9_NoLockAfterSerialize ==
    /\ Serialized =>
           /\ Xml = GetXml(plain)
           /\ ENABLED CallSetIconUri
           /\ ENABLED CallUseProtocolActivation
           /\ ENABLED CallSetToolTip
           /\ ENABLED CallSetInputId
           /\ ENABLED CallUseContextMenuPlacement
           /\ ENABLED CallSetButtonStyle
           /\ ENABLED CallAddArgument
    /\ phase = "Reconfiguring" => this = plain

\* After a first GetXml, setters changed the Button, and GetXml was called
\* again.
C9_Witness ==
    /\ phase = "Reserialized"
    /\ Xml = "<action content=Accept arguments=action&accept; hint-toolTip=Help />"

(***************************************************************************)
(* C10: each setter changes its own field only, to the value passed, and   *)
(* can be called with every value.                                         *)
(***************************************************************************)
C10_SetterFrame ==
    /\ [](/\ \A iconUri \in IconUris : ENABLED DoSetIconUri(iconUri)
          /\ \A protocolUri \in ProtocolUris : ENABLED DoUseProtocolActivation(protocolUri)
          /\ \A toolTip \in ToolTips : ENABLED DoSetToolTip(toolTip)
          /\ \A inputId \in InputIds : ENABLED DoSetInputId(inputId)
          /\ \A buttonStyle \in ButtonStyles : ENABLED DoSetButtonStyle(buttonStyle)
          /\ ENABLED CallUseContextMenuPlacement
          /\ \A key \in Keys, value \in Values : ENABLED DoAddArgument(key, value))
    /\ [][/\ \A key \in Keys, value \in Values :
                 DoAddArgument(key, value) =>
                     /\ OnlyChanges("m_arguments")
                     /\ \E i \in 1..Len(this'.m_arguments) :
                            this'.m_arguments[i] = [key |-> key, value |-> value]
          /\ \A iconUri \in IconUris :
                 DoSetIconUri(iconUri) =>
                     OnlyChanges("m_iconUri") /\ this'.m_iconUri = iconUri
          /\ \A protocolUri \in ProtocolUris :
                 DoUseProtocolActivation(protocolUri) =>
                     OnlyChanges("m_protocolUri") /\ this'.m_protocolUri = protocolUri
          /\ \A toolTip \in ToolTips :
                 DoSetToolTip(toolTip) =>
                     OnlyChanges("m_toolTip") /\ this'.m_toolTip = toolTip
          /\ \A inputId \in InputIds :
                 DoSetInputId(inputId) =>
                     OnlyChanges("m_inputId") /\ this'.m_inputId = inputId
          /\ CallUseContextMenuPlacement =>
                 /\ OnlyChanges("m_useContextMenuPlacement")
                 /\ this'.m_useContextMenuPlacement
          /\ \A buttonStyle \in ButtonStyles :
                 DoSetButtonStyle(buttonStyle) =>
                     OnlyChanges("m_buttonStyle") /\ this'.m_buttonStyle = buttonStyle
         ]_vars

\* Every setter has been called with a value that is not its field's default,
\* SetToolTip then with the empty string.
C10_Witness ==
    /\ \A op \in Setters : WasCalled(op)
    /\ lastCalls = << <<"id", "7">>, <<"action", "accept">> >>
    /\ this.m_iconUri # NullUri
    /\ this.m_protocolUri # NullUri
    /\ this.m_inputId = "reply"
    /\ this.m_buttonStyle = "Critical"
    /\ this.m_useContextMenuPlacement
    /\ lastArgs["SetToolTip"] = << <<"">> >>
    /\ ~Serialized

====
